---- MODULE Spec2Model ----
(***************************************************************************)
(* The resilient evaluation path of the LLM evaluation service:            *)
(*   EvaluationEngine.evaluate  ->  RedisRateLimiter.acquire               *)
(*                              ->  CircuitBreaker.call                    *)
(*                              ->  ProviderPool.get_available_provider    *)
(*                              ->  OpenRouterProvider.generate            *)
(* Every coroutine is cut at its suspension points (the store round trips  *)
(* and the provider's HTTP call); the code between two suspension points   *)
(* runs without interleaving on the event loop and is one action.          *)
(* Time is the value time.time() returns; Tick advances it by one unit.    *)
(***************************************************************************)
EXTENDS Integers, FiniteSets, Sequences, TLC

\* ------------------------------------------------------------- bounds
MaxTime == 4
MaxEvalTime == 2
MaxCalls == 4
MaxThreshold == 3
RecoveryTimeout == 2
RateLimit == 2
WindowSize == 3
MaxLen == 3

\* ---------------------------------------------------- program constants
MaxFailures == 3

Callers == {"c1", "c2"}
ProviderIds == {"p1", "p2"}

None == -1

VARIABLES
    now,                \* the clock read by time.time()
    redis_client,       \* RedisRateLimiter.redis_client is set
    zset,               \* the sorted set rate_limit:global (member = str(score))
    expire_at,          \* the store's expiry of that key
    breaker,            \* CircuitBreaker: state, failure_count, last_failure_time
    failure_threshold,  \* CircuitBreaker.failure_threshold
    providers,          \* ProviderPool.providers: id -> is_healthy, failure_count
    pc,                 \* where each evaluate() call is suspended
    current_time,       \* acquire()'s local current_time
    provider,           \* _perform_evaluation()'s local provider
    outcome,            \* what evaluate() returned or raised
    raised,             \* the exception evaluate()'s try block caught
    probe,              \* history: the call moved the breaker Open -> HalfOpen
    calls,              \* history: evaluate() calls started
    failed,             \* history: calls whose func (the provider call) raised
    succeeded,          \* history: some call returned through the breaker
    admitted,           \* history: clock readings of the admitted attempts
    reply,              \* what generate() returned, and the provider's name
    result,             \* what _parse_evaluation_response() made of it
    entered             \* history: the breaker state each direct call met at the gate

vars == <<now, redis_client, zset, expire_at, breaker, failure_threshold,
          providers, pc, current_time, provider, outcome, raised, probe,
          calls, failed, succeeded, admitted, reply, result, entered>>

CallerPcs == {"idle", "acquire", "zrem", "calling", "generating", "done"}

\* ---------------------------------------------------------- exceptions
NoExc == [kind |-> "none", msg |-> ""]
Granted == [kind |-> "granted", msg |-> ""]
FuncReturned == [kind |-> "returned", msg |-> ""]
FuncFailure == [kind |-> "Exception", msg |-> "func failed"]
RedisError == [kind |-> "RedisError", msg |-> "store unreachable"]
RateLimitExceeded == [kind |-> "RateLimitExceeded", msg |-> "Rate limit exceeded"]
BreakerOpen == [kind |-> "ServiceUnavailable", msg |-> "Circuit breaker is open"]
NoProviders == [kind |-> "ServiceUnavailable", msg |-> "No providers available"]
ProviderFailure == [kind |-> "Exception", msg |-> "OpenRouter request failed"]

\* evaluate(): `except Exception as e: raise EvaluationError(f"Failed to evaluate: {str(e)}")`
Surface(e) == [kind |-> "EvaluationError", msg |-> e.msg]

\* evaluate(): `return result`, the result carrying the provider's model_name
Returned(p) == [kind |-> "EvaluationResult", msg |-> p]

\* ------------------------------------------------------- rate limiter
window_size == WindowSize
rate_limit == RateLimit

\* The store shows no key once its expiry has passed.
Live(z) == IF now >= expire_at THEN {} ELSE z

\* A variant of the removal that removes nothing; C17 tells it from the
\* code's.
ZRemRangeByScore_Keeps(z, lo, hi) == z

\* ZREMRANGEBYSCORE key lo hi: both ends inclusive.
ZRemRangeByScore(z, lo, hi) == {m \in z : ~(lo <= m /\ m <= hi)}

\* ZADD key {str(t): t}: a member that is already there is kept, not doubled.
ZAdd(z, t) == z \cup {t}

ZRem(z, t) == z \ {t}

ZCard(z) == Cardinality(z)

\* The MULTI/EXEC pipeline of acquire(): results[1] is the ZCARD.
Pipeline(z, t) ==
    LET window_start == t - window_size
        z1 == ZRemRangeByScore(z, 0, window_start)
    IN  [zset |-> ZAdd(z1, t), count |-> ZCard(z1)]

\* `if current_count >= self.rate_limit`
OverLimit(count) == count >= rate_limit

\* ---------------------------------------------------- circuit breaker
recovery_timeout == RecoveryTimeout

NewBreaker == [state |-> "closed", failure_count |-> 0, last_failure_time |-> None]

\* call(), first locked block: the Open breaker rejects before the timeout.
GateRejects(b, t) ==
    b.state = "open" /\ t - b.last_failure_time < recovery_timeout

\* call(), first locked block, when it does not raise.
Gate(b, t) ==
    IF b.state = "open" THEN [b EXCEPT !.state = "half_open"] ELSE b

\* A variant of the success block that closes the breaker and keeps the
\* count; C4 tells it from the code's.
OnSuccess_KeepsCount(b) ==
    IF b.state = "half_open" THEN [b EXCEPT !.state = "closed"] ELSE b

\* A variant of the success block that closes the breaker from any state;
\* C22 tells it from the code's.
OnSuccess_ClosesAlways(b) == [b EXCEPT !.state = "closed", !.failure_count = 0]

\* A variant of the success block that also resets the count of a Closed
\* breaker; C23 tells it from the code's.
OnSuccess_ResetsInClosed(b) ==
    IF b.state \in {"half_open", "closed"}
    THEN [b EXCEPT !.state = "closed", !.failure_count = 0]
    ELSE b

\* A variant of the success block that resets the count of an Open
\* breaker; C26 tells it from the code's.
OnSuccess_ResetsInOpen(b) ==
    IF b.state = "half_open"
    THEN [b EXCEPT !.state = "closed", !.failure_count = 0]
    ELSE IF b.state = "open" THEN [b EXCEPT !.failure_count = 0] ELSE b

\* call(), the locked block after func returned.
OnSuccess(b) ==
    IF b.state = "half_open"
    THEN [b EXCEPT !.state = "closed", !.failure_count = 0]
    ELSE b

\* A variant of the except block that opens one failure late (> for >=);
\* C3 tells it from the code's.
OnFailure_Late(b, t) ==
    LET n == b.failure_count + 1
    IN  [state |-> IF n > failure_threshold THEN "open" ELSE b.state,
         failure_count |-> n,
         last_failure_time |-> t]

\* A variant of the except block that leaves last_failure_time alone; C20
\* tells it from the code's.
OnFailure_StaleTime(b, t) ==
    LET n == b.failure_count + 1
    IN  [state |-> IF n >= failure_threshold THEN "open" ELSE b.state,
         failure_count |-> n,
         last_failure_time |-> b.last_failure_time]

\* call(), the locked block of `except Exception`.
OnFailure(b, t) ==
    LET n == b.failure_count + 1
    IN  [state |-> IF n >= failure_threshold THEN "open" ELSE b.state,
         failure_count |-> n,
         last_failure_time |-> t]

\* ---------------------------------------------------------- providers
NewProvider == [is_healthy |-> TRUE, failure_count |-> 0]

MarkFailure(pr) ==
    LET n == pr.failure_count + 1
    IN  [is_healthy |-> IF n >= MaxFailures THEN FALSE ELSE pr.is_healthy,
         failure_count |-> n]

MarkSuccess(pr) == [is_healthy |-> TRUE, failure_count |-> 0]

\* OpenRouterProvider.health_check(): only is_healthy is assigned.
HealthChecked(pr, ok) == [pr EXCEPT !.is_healthy = ok]

\* generate()'s except clauses call mark_failure() before re-raising, and
\* _perform_evaluation()'s except clause calls mark_provider_failed().
FailedGenerate(pr) == MarkFailure(pr)
FailedEvaluation(pr) == MarkFailure(FailedGenerate(pr))

\* A variant of the filter that lets unhealthy providers through; C27 tells
\* it from the code's.
GetHealthyProviders_All(ps) == DOMAIN ps

\* get_healthy_providers(), and the filter of get_available_provider().
GetHealthyProviders(ps) == {p \in DOMAIN ps : ps[p].is_healthy}

\* A variant of the selection that ignores the failure counts; C16 tells it
\* from the code's.
BestProviders_AnyHealthy(ps) == GetHealthyProviders(ps)

\* get_available_provider(): the providers random.choice may return.
BestProviders(ps) ==
    LET healthy == GetHealthyProviders(ps)
    IN  {p \in healthy : \A q \in healthy : ps[p].failure_count <= ps[q].failure_count}

\* Nothing generated and nothing parsed yet.
NoReply == [content |-> <<>>, model_name |-> "none"]
NoResult == [explanation |-> <<>>, confidence |-> "None",
             provider |-> "none", criteria_scores |-> "None"]

\* ------------------------------------------------------------ initial
\* The state after main.lifespan() constructed the three components and
\* before EvaluationEngine.initialize().
Init ==
    /\ now = 0
    /\ redis_client = FALSE
    /\ zset = {}
    /\ expire_at = 0
    /\ breaker = NewBreaker
    /\ failure_threshold \in 1..MaxThreshold
    /\ providers = [p \in {} |-> NewProvider]
    /\ pc = [c \in Callers |-> "idle"]
    /\ current_time = [c \in Callers |-> None]
    /\ provider = [c \in Callers |-> "none"]
    /\ outcome = [c \in Callers |-> NoExc]
    /\ raised = [c \in Callers |-> NoExc]
    /\ probe = [c \in Callers |-> FALSE]
    /\ calls = 0
    /\ failed = 0
    /\ succeeded = FALSE
    /\ admitted = [t \in 0..MaxTime |-> 0]
    /\ reply = NoReply
    /\ result = NoResult
    /\ entered = [c \in Callers |-> "none"]

storeVars == <<zset, expire_at>>
poolVars == <<providers>>
historyVars == <<failed, succeeded, admitted>>
parseVars == <<reply, result>>

Free(c) == pc[c] \in {"idle", "done"}

\* A call ends: what it raised inside, and what its caller sees.
End(c, e, seen) ==
    /\ pc' = [pc EXCEPT ![c] = "done"]
    /\ raised' = [raised EXCEPT ![c] = e]
    /\ outcome' = [outcome EXCEPT ![c] = seen]

\* A call is suspended at `at`.
Suspend(c, at) ==
    /\ pc' = [pc EXCEPT ![c] = at]
    /\ raised' = [raised EXCEPT ![c] = NoExc]
    /\ outcome' = [outcome EXCEPT ![c] = NoExc]

\* Each component is driven either by evaluate() or directly by a caller of
\* its own; `via` says which, and decides what the component returns to.
ViaEvaluate == "evaluate"
Direct == "direct"

\* What the caller of a component makes of an exception it raises:
\* evaluate()'s except clause wraps it, a direct caller sees it as raised.
Seen(e, via) == IF via = ViaEvaluate THEN Surface(e) ELSE e

\* A variant in which the lock is held while func runs, so that no caller
\* gets past the gate while another is inside func; C21 tells it from the
\* code's.
CallFunc_Serialized(c, b) ==
    /\ \A d \in Callers \ {c} : pc[d] # "calling"
    /\ breaker' = b
    /\ pc' = [pc EXCEPT ![c] = "calling"]
    /\ raised' = [raised EXCEPT ![c] = NoExc]
    /\ outcome' = [outcome EXCEPT ![c] = NoExc]
    /\ provider' = [provider EXCEPT ![c] = "none"]

\* ---------------------------------------------------- CircuitBreaker
\* An arbitrary fallible func, up to its suspension; b is the breaker the
\* gate leaves.
CallFunc(c, b) ==
    /\ breaker' = b
    /\ pc' = [pc EXCEPT ![c] = "calling"]
    /\ raised' = [raised EXCEPT ![c] = NoExc]
    /\ outcome' = [outcome EXCEPT ![c] = NoExc]
    /\ provider' = [provider EXCEPT ![c] = "none"]

\* _perform_evaluation() up to the suspension in provider.generate();
\* without a provider it raises at once and the breaker counts it.
PerformEvaluation(c, b) ==
    LET best == BestProviders(providers)
    IN  IF best = {}
        THEN /\ breaker' = OnFailure(b, now)
             /\ End(c, NoProviders, Surface(NoProviders))
             /\ provider' = [provider EXCEPT ![c] = "none"]
        ELSE /\ breaker' = b
             /\ \E p \in best : provider' = [provider EXCEPT ![c] = p]
             /\ Suspend(c, "generating")

\* A variant of call() that counts a rejection as a failure; C25 tells it
\* from the code's.
BreakerCall_CountsRejection(c, via) ==
    /\ IF GateRejects(breaker, now)
       THEN /\ End(c, BreakerOpen, Seen(BreakerOpen, via))
            /\ provider' = [provider EXCEPT ![c] = "none"]
            /\ probe' = [probe EXCEPT ![c] = FALSE]
            /\ breaker' = OnFailure(breaker, now)
       ELSE /\ probe' = [probe EXCEPT ![c] = (breaker.state = "open")]
            /\ IF via = ViaEvaluate
               THEN PerformEvaluation(c, Gate(breaker, now))
               ELSE CallFunc(c, Gate(breaker, now))
    /\ UNCHANGED historyVars

\* call() up to the suspension inside func, or to the exception raised
\* before it.  Nothing suspends between the gate and func's first await.
BreakerCall(c, via) ==
    /\ IF GateRejects(breaker, now)
       THEN /\ End(c, BreakerOpen, Seen(BreakerOpen, via))
            /\ provider' = [provider EXCEPT ![c] = "none"]
            /\ probe' = [probe EXCEPT ![c] = FALSE]
            /\ UNCHANGED breaker
       ELSE /\ probe' = [probe EXCEPT ![c] = (breaker.state = "open")]
            /\ IF via = ViaEvaluate
               THEN PerformEvaluation(c, Gate(breaker, now))
               ELSE CallFunc(c, Gate(breaker, now))
    /\ UNCHANGED historyVars

\* ------------------------------------------------ RedisRateLimiter
\* acquire() returns None without the store having counted the attempt
\* (no client, or a store error): its caller goes on.
PassOpen(c, via) ==
    IF via = ViaEvaluate
    THEN BreakerCall(c, ViaEvaluate)
    ELSE /\ End(c, NoExc, Granted)
         /\ UNCHANGED <<breaker, provider, probe, historyVars>>

\* acquire() returns None because the count was under the limit.
Admit(c, via) ==
    IF via = ViaEvaluate
    THEN BreakerCall(c, ViaEvaluate)
    ELSE /\ End(c, NoExc, Granted)
         /\ admitted' = [admitted EXCEPT ![current_time[c]] = @ + 1]
         /\ UNCHANGED <<breaker, provider, probe, failed, succeeded>>

\* acquire() up to its first suspension.
AcquireBegin(c, via) ==
    IF ~redis_client
    THEN /\ current_time' = [current_time EXCEPT ![c] = None]
         /\ PassOpen(c, via)
    ELSE /\ current_time' = [current_time EXCEPT ![c] = now]
         /\ Suspend(c, "acquire")
         /\ provider' = [provider EXCEPT ![c] = "none"]
         /\ probe' = [probe EXCEPT ![c] = FALSE]
         /\ UNCHANGED <<breaker, historyVars>>

\* The store executes the pipeline and acquire() reads results[1].
AcquirePipeline(c, via) ==
    /\ pc[c] = "acquire"
    /\ LET r == Pipeline(Live(zset), current_time[c])
       IN  /\ zset' = r.zset
           /\ expire_at' = now + window_size
           /\ IF OverLimit(r.count)
              THEN /\ pc' = [pc EXCEPT ![c] = "zrem"]
                   /\ UNCHANGED <<breaker, current_time, provider, outcome,
                                  raised, probe, historyVars>>
              ELSE /\ current_time' = [current_time EXCEPT ![c] = None]
                   /\ Admit(c, via)

\* A variant of the rejection in which the caller goes on into the breaker;
\* C19 tells it from the code's.
AcquireZRem_EntersBreaker(c, via) ==
    /\ pc[c] = "zrem"
    /\ zset' = ZRem(Live(zset), current_time[c])
    /\ current_time' = [current_time EXCEPT ![c] = None]
    /\ BreakerCall(c, via)
    /\ UNCHANGED expire_at

\* The store executes the ZREM of the attempt that was over the limit,
\* and acquire() raises.
AcquireZRem(c, via) ==
    /\ pc[c] = "zrem"
    /\ zset' = ZRem(Live(zset), current_time[c])
    /\ End(c, RateLimitExceeded, Seen(RateLimitExceeded, via))
    /\ current_time' = [current_time EXCEPT ![c] = None]
    /\ UNCHANGED <<expire_at, breaker, provider, probe, historyVars>>

\* A variant of the except clause that names an exception the client never
\* raises; C7 tells it from the code's.
CaughtByAcquire_Narrow(e) == e.kind = "ConnectionRefusedError"

\* acquire(): `except redis.RedisError as e: ... pass`
CaughtByAcquire(e) == e.kind = "RedisError"

\* A store round trip raises redis.RedisError: acquire() logs and returns.
AcquireStoreError(c, via) ==
    /\ pc[c] \in {"acquire", "zrem"}
    /\ current_time' = [current_time EXCEPT ![c] = None]
    /\ IF CaughtByAcquire(RedisError)
       THEN PassOpen(c, via)
       ELSE /\ End(c, RedisError, Seen(RedisError, via))
            /\ UNCHANGED <<breaker, provider, probe, historyVars>>
    /\ UNCHANGED storeVars

\* ------------------------------------------- actions of evaluate()
\* EvaluationEngine.initialize(): the store client, then the pool.
Initialize ==
    /\ ~redis_client
    /\ redis_client' = TRUE
    /\ providers' = [p \in ProviderIds |-> NewProvider]
    /\ UNCHANGED <<now, storeVars, breaker, failure_threshold, pc,
                   current_time, provider, outcome, raised, probe, calls,
                   historyVars>>
    /\ UNCHANGED <<parseVars, entered>>

Evaluate(c) ==
    /\ Free(c)
    /\ calls < MaxCalls
    /\ calls' = calls + 1
    /\ AcquireBegin(c, ViaEvaluate)
    /\ UNCHANGED <<now, redis_client, storeVars, failure_threshold, poolVars>>
    /\ UNCHANGED <<parseVars, entered>>

PipelineExecute(c) ==
    /\ AcquirePipeline(c, ViaEvaluate)
    /\ UNCHANGED <<now, redis_client, failure_threshold, poolVars, calls>>
    /\ UNCHANGED <<parseVars, entered>>

ZRemExecute(c) ==
    /\ AcquireZRem(c, ViaEvaluate)
    /\ UNCHANGED <<now, redis_client, failure_threshold, poolVars, calls>>
    /\ UNCHANGED <<parseVars, entered>>

StoreError(c) ==
    /\ AcquireStoreError(c, ViaEvaluate)
    /\ UNCHANGED <<now, redis_client, failure_threshold, poolVars, calls>>
    /\ UNCHANGED <<parseVars, entered>>

\* The provider answers 200: mark_success(), the parse, the breaker's
\* success block, evaluate() returns.
GenerateReturns(c) ==
    /\ pc[c] = "generating"
    /\ providers' = [providers EXCEPT ![provider[c]] = MarkSuccess(@)]
    /\ breaker' = OnSuccess(breaker)
    /\ End(c, NoExc, Returned(provider[c]))
    /\ succeeded' = TRUE
    /\ UNCHANGED <<now, redis_client, storeVars, failure_threshold,
                   current_time, provider, probe, calls, failed, admitted>>
    /\ UNCHANGED <<parseVars, entered>>

\* A variant of the failure path that tries another healthy provider within
\* the same evaluate() call; C12 tells it from the code's.
GenerateRaises_Retries(c) ==
    /\ pc[c] = "generating"
    /\ providers' = [providers EXCEPT ![provider[c]] = FailedEvaluation(@)]
    /\ LET others == GetHealthyProviders(providers') \ {provider[c]}
       IN  IF others = {}
           THEN /\ breaker' = OnFailure(breaker, now)
                /\ End(c, ProviderFailure, Surface(ProviderFailure))
                /\ failed' = failed + 1
                /\ UNCHANGED provider
           ELSE /\ \E p \in others : provider' = [provider EXCEPT ![c] = p]
                /\ UNCHANGED <<breaker, pc, raised, outcome, failed>>
    /\ UNCHANGED <<now, redis_client, storeVars, failure_threshold,
                   current_time, probe, calls, succeeded, admitted>>
    /\ UNCHANGED <<parseVars, entered>>

\* The provider call fails (timeout, 429, another status, a bad body).
GenerateRaises(c) ==
    /\ pc[c] = "generating"
    /\ providers' = [providers EXCEPT ![provider[c]] = FailedEvaluation(@)]
    /\ breaker' = OnFailure(breaker, now)
    /\ End(c, ProviderFailure, Surface(ProviderFailure))
    /\ failed' = failed + 1
    /\ UNCHANGED <<now, redis_client, storeVars, failure_threshold,
                   current_time, provider, probe, calls, succeeded, admitted>>
    /\ UNCHANGED <<parseVars, entered>>

\* ProviderPool.health_check_all() -> provider.health_check() answers.
HealthCheck(p, ok) ==
    /\ p \in DOMAIN providers
    /\ providers[p].is_healthy # ok
    /\ providers' = [providers EXCEPT ![p] = HealthChecked(@, ok)]
    /\ UNCHANGED <<now, redis_client, storeVars, breaker, failure_threshold,
                   pc, current_time, provider, outcome, raised, probe, calls,
                   historyVars>>
    /\ UNCHANGED <<parseVars, entered>>

Advance(limit) ==
    /\ now < limit
    /\ now' = now + 1
    /\ UNCHANGED <<redis_client, storeVars, breaker, failure_threshold,
                   poolVars, pc, current_time, provider, outcome, raised,
                   probe, calls, historyVars>>
    /\ UNCHANGED <<parseVars, entered>>

Tick == Advance(MaxEvalTime)

Next ==
    \/ Initialize
    \/ \E c \in Callers : Evaluate(c)
    \/ \E c \in Callers : PipelineExecute(c)
    \/ \E c \in Callers : ZRemExecute(c)
    \/ \E c \in Callers : StoreError(c)
    \/ \E c \in Callers : GenerateReturns(c)
    \/ \E c \in Callers : GenerateRaises(c)
    \/ \E p \in ProviderIds, ok \in BOOLEAN : HealthCheck(p, ok)
    \/ Tick

Spec == Init /\ [][Next]_vars

\* ------------------------------- CircuitBreaker.call on its own
Call(c) ==
    /\ Free(c)
    /\ calls < MaxCalls
    /\ calls' = calls + 1
    /\ BreakerCall(c, Direct)
    /\ UNCHANGED <<now, redis_client, storeVars, failure_threshold, poolVars,
                   current_time>>
    /\ entered' = [entered EXCEPT ![c] = breaker.state]
    /\ UNCHANGED parseVars

FuncReturns(c) ==
    /\ pc[c] = "calling"
    /\ breaker' = OnSuccess(breaker)
    /\ End(c, NoExc, FuncReturned)
    /\ succeeded' = TRUE
    /\ UNCHANGED <<now, redis_client, storeVars, failure_threshold, poolVars,
                   current_time, provider, probe, calls, failed, admitted>>
    /\ UNCHANGED <<parseVars, entered>>

FuncRaises(c) ==
    /\ pc[c] = "calling"
    /\ breaker' = OnFailure(breaker, now)
    /\ End(c, FuncFailure, Seen(FuncFailure, Direct))
    /\ failed' = failed + 1
    /\ UNCHANGED <<now, redis_client, storeVars, failure_threshold, poolVars,
                   current_time, provider, probe, calls, succeeded, admitted>>
    /\ UNCHANGED <<parseVars, entered>>

TickCB == Advance(MaxTime)

NextCB ==
    \/ \E c \in Callers : Call(c)
    \/ \E c \in Callers : FuncReturns(c)
    \/ \E c \in Callers : FuncRaises(c)
    \/ TickCB

SpecCB == Init /\ [][NextCB]_vars

\* ----------------------------- RedisRateLimiter.acquire on its own,
\* ----------------------------- every store round trip succeeding
\* RedisRateLimiter.initialize()
Connect ==
    /\ ~redis_client
    /\ redis_client' = TRUE
    /\ UNCHANGED <<now, storeVars, breaker, failure_threshold, poolVars, pc,
                   current_time, provider, outcome, raised, probe, calls,
                   historyVars>>
    /\ UNCHANGED <<parseVars, entered>>

Acquire(c) ==
    /\ Free(c)
    /\ calls < MaxCalls
    /\ calls' = calls + 1
    /\ AcquireBegin(c, Direct)
    /\ UNCHANGED <<now, redis_client, storeVars, failure_threshold, poolVars>>
    /\ UNCHANGED <<parseVars, entered>>

AcquireExecute(c) ==
    /\ AcquirePipeline(c, Direct)
    /\ UNCHANGED <<now, redis_client, failure_threshold, poolVars, calls>>
    /\ UNCHANGED <<parseVars, entered>>

AcquireRejects(c) ==
    /\ AcquireZRem(c, Direct)
    /\ UNCHANGED <<now, redis_client, failure_threshold, poolVars, calls>>
    /\ UNCHANGED <<parseVars, entered>>

TickRL == Advance(MaxTime)

NextRL ==
    \/ Connect
    \/ \E c \in Callers : Acquire(c)
    \/ \E c \in Callers : AcquireExecute(c)
    \/ \E c \in Callers : AcquireRejects(c)
    \/ TickRL

\* The breaker plays no part here: one threshold is enough.
InitRL ==
    /\ Init
    /\ failure_threshold = 1

SpecRL == InitRL /\ [][NextRL]_vars

\* ------------------------------- _parse_evaluation_response on its own
\* A reply is a string over these characters: the braces, " " for any
\* whitespace, "a" for any other character of plain text, and "m" for one
\* well-formed member `"confidence": 0.9` of a JSON object.
Chars == {"{", "}", " ", "a", "m"}

RECURSIVE TextsOfLen(_)
TextsOfLen(n) ==
    IF n = 0 THEN {<<>>}
    ELSE {Append(t, ch) : t \in TextsOfLen(n - 1), ch \in Chars}

Texts == UNION {TextsOfLen(n) : n \in 0..MaxLen}

\* str.find(ch): the lowest 0-based index of ch, -1 without one.
Find(s, ch) ==
    IF \E i \in 1..Len(s) : s[i] = ch
    THEN (CHOOSE i \in 1..Len(s) :
              s[i] = ch /\ \A j \in 1..(i - 1) : s[j] # ch) - 1
    ELSE -1

\* str.rfind(ch): the highest 0-based index of ch, -1 without one.
RFind(s, ch) ==
    IF \E i \in 1..Len(s) : s[i] = ch
    THEN (CHOOSE i \in 1..Len(s) :
              s[i] = ch /\ \A j \in (i + 1)..Len(s) : s[j] # ch) - 1
    ELSE -1

\* s[start:end] for 0 <= start, end <= len(s): empty when end <= start.
Slice(s, start, end) == SubSeq(s, start + 1, end)

\* str.strip()
RECURSIVE LStrip(_)
LStrip(s) ==
    IF s # <<>> /\ Head(s) = " " THEN LStrip(Tail(s)) ELSE s

RECURSIVE RStrip(_)
RStrip(s) ==
    IF s # <<>> /\ s[Len(s)] = " " THEN RStrip(SubSeq(s, 1, Len(s) - 1)) ELSE s

Strip(s) == RStrip(LStrip(s))

\* json.loads(): over Chars the only JSON documents are an object with no
\* member or with the one member "m", whitespace allowed around the tokens.
JsonLoads(s) ==
    LET tokens == SelectSeq(s, LAMBDA ch : ch # " ")
    IN  IF tokens = <<"{", "}">>
        THEN [ok |-> TRUE, confidence |-> "None"]
        ELSE IF tokens = <<"{", "m", "}">>
        THEN [ok |-> TRUE, confidence |-> "0.9"]
        ELSE [ok |-> FALSE, confidence |-> "None"]

\* A variant of the fallback that keeps the text untrimmed; C15 tells it
\* from the code's.
Fallback_Untrimmed(response, provider_name) ==
    [explanation |-> response, confidence |-> "0.5",
     provider |-> provider_name, criteria_scores |-> "None"]

\* The fallback EvaluationResult, built in both places of the parser.
Fallback(response, provider_name) ==
    [explanation |-> Strip(response), confidence |-> "0.5",
     provider |-> provider_name, criteria_scores |-> "None"]

ParseEvaluationResponse(response, provider_name) ==
    LET start_idx == Find(response, "{")
        end_idx == RFind(response, "}") + 1
    IN  IF start_idx = -1 \/ end_idx = 0
        THEN Fallback(response, provider_name)
        ELSE LET parsed == JsonLoads(Slice(response, start_idx, end_idx))
             IN  IF ~parsed.ok
                 THEN Fallback(response, provider_name)
                 ELSE [explanation |-> Strip(response),
                       confidence |-> parsed.confidence,
                       provider |-> provider_name,
                       criteria_scores |-> "None"]

\* generate() returned text from provider p and _perform_evaluation()
\* hands it to the parser.
Parse(text, p) ==
    /\ reply' = [content |-> text, model_name |-> p]
    /\ result' = ParseEvaluationResponse(text, p)
    /\ UNCHANGED <<now, redis_client, storeVars, breaker, failure_threshold,
                   poolVars, pc, current_time, provider, outcome, raised,
                   probe, calls, historyVars, entered>>

NextParse == \E text \in Texts, p \in ProviderIds : Parse(text, p)

\* The breaker plays no part here: one threshold is enough.
InitParse ==
    /\ Init
    /\ failure_threshold = 1

SpecParse == InitParse /\ [][NextParse]_vars

\* ------------------------------------------------ the HTTP routes
\* evaluate_llm_output(): the response to the request whose evaluate()
\* returned or raised o.  The handler awaits nothing after evaluate().
evaluate_llm_output(o) ==
    CASE o.kind = "EvaluationResult" ->
            [status_code |-> 200, error_code |-> "", retry_after |-> None]
      [] o.kind = "RateLimitExceeded" ->
            [status_code |-> 429, error_code |-> "RATE_LIMITED", retry_after |-> 60]
      [] o.kind = "ServiceUnavailable" ->
            [status_code |-> 503, error_code |-> "SERVICE_UNAVAILABLE",
             retry_after |-> None]
      [] o.kind = "EvaluationError" ->
            [status_code |-> 400, error_code |-> "EVALUATION_ERROR",
             retry_after |-> None]
      [] OTHER ->
            [status_code |-> 500, error_code |-> "INTERNAL_ERROR",
             retry_after |-> None]

\* RedisRateLimiter.health_check(): False without a client or when the ping
\* fails, True otherwise; every exception is caught.
RateLimiterHealthCheck(client, ping_ok) == client /\ ping_ok
RateLimiterHealthCheckRaises(client, ping_ok) == FALSE

\* EvaluationEngine.health_check(): "redis" is unhealthy only when the
\* awaited rate_limiter.health_check() raises; its value is not looked at.
EngineHealthCheck(client, ping_ok, ps) ==
    [redis |-> IF RateLimiterHealthCheckRaises(client, ping_ok)
               THEN "unhealthy" ELSE "healthy",
     providers |-> IF GetHealthyProviders(ps) # {}
                   THEN "healthy" ELSE "unhealthy"]

\* readiness_check()
readiness_check(components) ==
    IF \A k \in DOMAIN components : components[k] = "healthy"
    THEN [status_code |-> 200, status |-> "ready", components |-> components]
    ELSE [status_code |-> 503, status |-> "not_ready", components |-> components]

\* =====================================================================
\* Properties
\* =====================================================================

\* The step in which caller c's evaluate() gets past acquire() and enters
\* circuit_breaker.call().
AtGate(c) ==
    \/ Evaluate(c) /\ ~redis_client
    \/ PipelineExecute(c) /\ pc'[c] # "zrem"
    \/ StoreError(c)

\* C1: with threshold 3, the third consecutive evaluate() whose generate()
\* fails leaves the breaker Open, and an evaluate() that reaches the Open
\* breaker before the recovery timeout fails with ServiceUnavailable and
\* no provider's generate() is invoked for it.
C1_Step ==
    failure_threshold = 3 =>
        /\ \A c \in Callers :
             (GenerateRaises(c) /\ ~succeeded /\ failed' = 3)
                => breaker'.state = "open"
        /\ \A c \in Callers :
             (/\ ~succeeded /\ failed = 3 /\ breaker.failure_count = 3
              /\ AtGate(c) /\ now - breaker.last_failure_time < recovery_timeout)
                => /\ pc'[c] = "done"
                   /\ outcome'[c].kind = "ServiceUnavailable"
                   /\ provider'[c] = "none"

C1_OpenBreakerSurfacesServiceUnavailable == [][C1_Step]_vars

\* C2: when acquire() denies admission, evaluate() surfaces
\* RateLimitExceeded itself.
C2_RateLimitExceededUnchanged ==
    \A c \in Callers :
        (pc[c] = "done" /\ raised[c] = RateLimitExceeded)
            => outcome[c] = RateLimitExceeded

\* C7: without a store client, or when a store round trip raises a store
\* error, acquire() returns normally and evaluate() goes on into
\* circuit_breaker.call(): it ends at the breaker's gate, or in
\* _perform_evaluation, never with an error of the rate limiter.
EntersBreaker(c) ==
    IF GateRejects(breaker, now)
    THEN pc'[c] = "done" /\ raised'[c] = BreakerOpen
    ELSE \/ pc'[c] = "generating" /\ provider'[c] \in BestProviders(providers)
         \/ pc'[c] = "done" /\ raised'[c] = NoProviders

C7_FailOpen ==
    [][\A c \in Callers :
         ((Evaluate(c) /\ ~redis_client) \/ StoreError(c))
            => EntersBreaker(c)]_vars

\* C7 witness: a call whose store round trip failed is at the provider.
C7_Witness ==
    \E c \in Callers :
        /\ pc[c] = "generating"
        /\ zset = {}
        /\ calls = 1
        /\ redis_client

\* C8: isHealthy is false exactly when failureCount >= maxFailures.
C8_HealthyIffUnderMaxFailures ==
    \A p \in DOMAIN providers :
        (~providers[p].is_healthy) <=> (providers[p].failure_count >= MaxFailures)

\* C9: a failed generate() of one evaluate() raises the provider's
\* failureCount by exactly 1.
C9_OneFailureCountsOnce ==
    [][\A c \in Callers :
         GenerateRaises(c)
            => providers'[provider[c]].failure_count
                 = providers[provider[c]].failure_count + 1]_vars

\* C10: the provider an evaluation selects never has
\* failureCount >= maxFailures.
C10_SelectedUnderMaxFailures ==
    [][\A c \in Callers :
         (pc[c] # "generating" /\ pc'[c] = "generating")
            => providers[provider'[c]].failure_count < MaxFailures]_vars

\* C3: from the initial Closed breaker and with failing calls only, the
\* breaker is still Closed after fewer than T failures and Open after the
\* T-th, and a call made after them, less than recovery_timeout after the
\* last failure, is rejected without func being invoked.
C3_OpensAtThreshold ==
    [][\A c \in Callers :
         /\ (FuncRaises(c) /\ ~succeeded /\ failed' < failure_threshold)
               => breaker'.state = "closed"
         /\ (FuncRaises(c) /\ ~succeeded /\ failed' = failure_threshold)
               => breaker'.state = "open"
         /\ (/\ Call(c) /\ ~succeeded /\ failed = failure_threshold
             /\ now - breaker.last_failure_time < recovery_timeout)
               => /\ pc'[c] = "done"
                  /\ outcome'[c] = BreakerOpen
                  /\ breaker' = breaker]_vars

\* C3 witness: threshold 3, three failures, no success, and a call rejected.
C3_Witness ==
    \E c \in Callers :
        /\ failure_threshold = 3
        /\ failed = 3
        /\ ~succeeded
        /\ pc[c] = "done"
        /\ raised[c] = BreakerOpen
        /\ breaker.state = "open"

\* The gate's part of C4: an Open breaker whose timeout has elapsed admits
\* the next call as a probe.
C4_Admits(c) ==
    (/\ Call(c) /\ breaker.state = "open"
     /\ now - breaker.last_failure_time >= recovery_timeout)
        => /\ breaker'.state = "half_open"
           /\ pc'[c] = "calling"
           /\ probe'[c]

\* C4 as claimed: the probe's success closes the breaker with failureCount 0
\* and its failure re-opens it, whatever happened while it ran.
C4_ProbeDecides ==
    [][\A c \in Callers :
         /\ C4_Admits(c)
         /\ (FuncReturns(c) /\ probe[c])
               => /\ breaker'.state = "closed"
                  /\ breaker'.failure_count = 0
         /\ (FuncRaises(c) /\ probe[c])
               => /\ breaker'.state = "open"
                  /\ breaker'.failure_count = breaker.failure_count + 1
                  /\ breaker'.last_failure_time = now]_vars

\* C4 as amended: the same, for a probe that completes while the breaker is
\* still HalfOpen.
C4_ProbeDecidesWhileHalfOpen ==
    [][\A c \in Callers :
         /\ C4_Admits(c)
         /\ (FuncReturns(c) /\ probe[c] /\ breaker.state = "half_open")
               => /\ breaker'.state = "closed"
                  /\ breaker'.failure_count = 0
         /\ (FuncRaises(c) /\ probe[c] /\ breaker.state = "half_open")
               => /\ breaker'.state = "open"
                  /\ breaker'.failure_count = breaker.failure_count + 1
                  /\ breaker'.last_failure_time = now]_vars

\* C4 witness: a probe has returned and closed the breaker.
C4_Witness ==
    \E c \in Callers :
        /\ pc[c] = "done"
        /\ probe[c]
        /\ outcome[c] = FuncReturned
        /\ breaker.state = "closed"
        /\ breaker.failure_count = 0
        /\ failed >= failure_threshold

\* The admitted attempts whose clock reading lies in lo..hi.
RECURSIVE AdmittedIn(_, _)
AdmittedIn(lo, hi) ==
    IF lo > hi THEN 0
    ELSE (IF lo \in DOMAIN admitted THEN admitted[lo] ELSE 0)
            + AdmittedIn(lo + 1, hi)

\* C5: once L attempts were admitted, a further attempt less than W after
\* the first of them is rejected; an attempt is admitted when fewer than L
\* admissions are younger than W.
C5_WindowAdmission ==
    [][\A c \in Callers :
         /\ AcquireExecute(c) =>
              LET t == current_time[c]
              IN  /\ AdmittedIn(t - window_size + 1, t) >= rate_limit
                        => pc'[c] = "zrem"
                  /\ AdmittedIn(t - window_size + 1, MaxTime) < rate_limit
                        => pc'[c] = "done" /\ outcome'[c] = Granted
         /\ AcquireRejects(c) => outcome'[c] = RateLimitExceeded]_vars

\* C6: no W consecutive clock values hold more than L admitted attempts.
C6_NeverOverLimit ==
    \A t \in 0..MaxTime : AdmittedIn(t, t + window_size - 1) <= rate_limit

\* C11: when the pool holds providers and all of them are unhealthy, an
\* evaluate() that passes the breaker's gate selects no provider, invokes
\* no generate() and fails with ServiceUnavailable.
C11_NoHealthyProviderIsServiceUnavailable ==
    [][\A c \in Callers :
         (/\ AtGate(c)
          /\ ~GateRejects(breaker, now)
          /\ DOMAIN providers # {}
          /\ GetHealthyProviders(providers) = {})
            => /\ pc'[c] = "done"
               /\ provider'[c] = "none"
               /\ outcome'[c].kind = "ServiceUnavailable"]_vars

C13_ReadinessReflectsStoreAndProviders ==
    \A ping_ok \in BOOLEAN :
        DOMAIN providers # {} =>
        LET resp == readiness_check(
                        EngineHealthCheck(redis_client, ping_ok, providers))
        IN  /\ (resp.status_code = 503)
                  <=> (\/ ~(redis_client /\ ping_ok)
                       \/ GetHealthyProviders(providers) = {})
            /\ resp.status_code \in {200, 503}
            /\ ~RateLimiterHealthCheck(redis_client, ping_ok)
                  => resp.components.redis = "unhealthy"

\* C14: once the engine is initialized, a request whose evaluate() was
\* denied by the rate limiter is
\* answered 429 / RATE_LIMITED / retry_after 60; one rejected by the open
\* breaker or for want of a healthy provider is answered 503 /
\* SERVICE_UNAVAILABLE; 400 / EVALUATION_ERROR is for the other failures.
C14_EndpointErrorCodes ==
    \A c \in Callers :
        (pc[c] = "done" /\ DOMAIN providers # {}) =>
            LET resp == evaluate_llm_output(outcome[c])
            IN  /\ raised[c] = RateLimitExceeded
                      => /\ resp.status_code = 429
                         /\ resp.error_code = "RATE_LIMITED"
                         /\ resp.retry_after = 60
                /\ raised[c] \in {BreakerOpen, NoProviders}
                      => /\ resp.status_code = 503
                         /\ resp.error_code = "SERVICE_UNAVAILABLE"
                /\ resp.error_code = "EVALUATION_ERROR"
                      => /\ resp.status_code = 400
                         /\ raised[c] \notin
                               {RateLimitExceeded, BreakerOpen, NoProviders}

\* The trimmed form of text t: t without its leading and trailing
\* whitespace.
C15_IsTrimOf(e, t) ==
    \E i \in 1..(Len(t) + 1), j \in 0..Len(t) :
        /\ e = SubSeq(t, i, j)
        /\ \A k \in 1..Len(t) : (k < i \/ k > j) => t[k] = " "
        /\ e # <<>> => (e[1] # " " /\ e[Len(e)] # " ")

\* The reply holds no brace-delimited record, or the text from its first
\* "{" to its last "}" is not a JSON document.
C15_Unparsable(t) ==
    \/ ~\E i \in 1..Len(t) : t[i] = "{"
    \/ ~\E i \in 1..Len(t) : t[i] = "}"
    \/ \A i, j \in 1..Len(t) :
          (/\ t[i] = "{" /\ \A k \in 1..(i - 1) : t[k] # "{"
           /\ t[j] = "}" /\ \A k \in (j + 1)..Len(t) : t[k] # "}")
             => ~JsonLoads(SubSeq(t, i, j)).ok

\* C15: for a reply without a brace-delimited record, or with one that does
\* not parse, the parser returns a result whose explanation is the trimmed
\* raw text, confidence 0.5, no criteria_scores, and whose provider is the
\* one that produced the reply.
C15_FallbackResult ==
    (reply # NoReply /\ C15_Unparsable(reply.content)) =>
        /\ C15_IsTrimOf(result.explanation, reply.content)
        /\ result.confidence = "0.5"
        /\ result.criteria_scores = "None"
        /\ result.provider = reply.model_name

\* C15 witness: a reply with a record that does not parse, around it
\* whitespace, has been given the fallback result.
C15_Witness ==
    /\ reply.content = <<" ", "{", "a">>
    /\ result.explanation = <<"{", "a">>
    /\ result.confidence = "0.5"

\* Healthy provider p has the least failureCount of the healthy providers.
C16_TiedAtMinimum(p) ==
    /\ p \in DOMAIN providers
    /\ providers[p].is_healthy
    /\ \A q \in DOMAIN providers :
          providers[q].is_healthy
             => providers[p].failure_count <= providers[q].failure_count

\* C16: the provider an evaluation selects is healthy and has the least
\* failureCount of the healthy providers, and wherever a call is about to
\* select, every healthy provider tied at that minimum can be the one.
C16_SelectsAmongLeastFailed ==
    [][\A c \in Callers :
         /\ (pc[c] # "generating" /\ pc'[c] = "generating")
               => C16_TiedAtMinimum(provider'[c])
         /\ (/\ pc[c] = "acquire"
             /\ ~GateRejects(breaker, now)
             /\ GetHealthyProviders(providers) # {})
               => \A p \in ProviderIds :
                     C16_TiedAtMinimum(p)
                        => ENABLED (/\ StoreError(c) \/ PipelineExecute(c)
                                    /\ pc'[c] = "generating"
                                    /\ provider'[c] = p)]_vars

\* C16 witness: a call is at the provider it selected while another healthy
\* provider, with more failures, was passed over; and a tie was on offer.
C16_Witness ==
    \E c \in Callers :
        /\ pc[c] = "generating"
        /\ failed = 1
        /\ calls = 2
        /\ providers[provider[c]].failure_count = 0
        /\ \E q \in DOMAIN providers :
              providers[q].is_healthy /\ providers[q].failure_count > 0

\* C17: when the store executes an acquire() call's pipeline, every entry
\* older than the call's clock reading minus the window is removed before
\* the count is taken: none is left in the set, and a rejection rests on at
\* least L entries no older than that.
C17_CountsOnlyTheWindow ==
    [][\A c \in Callers :
         AcquireExecute(c) =>
            LET t == current_time[c]
            IN  /\ \A m \in zset' : m >= t - window_size
                /\ pc'[c] = "zrem"
                      => Cardinality({m \in zset : m >= t - window_size})
                            >= rate_limit]_vars

\* C17 witness: the attempt at clock 4 was counted against the entry of
\* clock 2 alone, the entry of clock 0 having been removed.
C17_Witness ==
    \E c \in Callers :
        /\ pc[c] = "done"
        /\ outcome[c] = Granted
        /\ admitted[0] = 1
        /\ admitted[2] = 1
        /\ admitted[4] = 1
        /\ zset = {2, 4}

\* C18: the timestamp of an attempt that is being rejected (its pipeline
\* read a count at the limit) is not in the stored set in any state another
\* acquire() call can observe, unless an admitted attempt recorded the same
\* timestamp.
C18_RejectedNeverRecorded ==
    \A c \in Callers :
        (pc[c] = "zrem" /\ admitted[current_time[c]] = 0)
            => current_time[c] \notin Live(zset)

\* C19: when acquire() denies admission, evaluate() stops there: it ends
\* with the rate limiter's error raised inside, no provider selected, and
\* the breaker and every provider exactly as they were.
C19_DeniedStopsAtGate ==
    [][\A c \in Callers :
         ZRemExecute(c)
            => /\ pc'[c] = "done"
               /\ raised'[c] = RateLimitExceeded
               /\ provider'[c] = "none"
               /\ breaker' = breaker
               /\ providers' = providers
               /\ probe'[c] = FALSE]_vars

\* C19 witness: a call was denied while the breaker had failures on record.
C19_Witness ==
    \E c \in Callers :
        /\ pc[c] = "done"
        /\ raised[c] = RateLimitExceeded
        /\ breaker.failure_count > 0
        /\ DOMAIN providers # {}

\* C20: a protected call that fails after the gate (generate() failed, or
\* no provider was available) advances failureCount by exactly 1, sets
\* lastFailureTime to the time of the failure, and its exception is what
\* CircuitBreaker.call raises to evaluate().
C20_FailureCountedOnce ==
    [][\A c \in Callers :
         /\ GenerateRaises(c)
               => /\ breaker'.failure_count = breaker.failure_count + 1
                  /\ breaker'.last_failure_time = now
                  /\ raised'[c] = ProviderFailure
         /\ (/\ AtGate(c)
             /\ ~GateRejects(breaker, now)
             /\ GetHealthyProviders(providers) = {})
               => /\ breaker'.failure_count = breaker.failure_count + 1
                  /\ breaker'.last_failure_time = now
                  /\ raised'[c] = NoProviders]_vars

\* C20 witness: one call failed in generate() and a later one for want of a
\* provider, at different times, and the breaker counted both.
C20_Witness ==
    \E c, d \in Callers :
        /\ pc[c] = "done" /\ raised[c] = ProviderFailure
        /\ pc[d] = "done" /\ raised[d] = NoProviders
        /\ DOMAIN providers # {}
        /\ breaker.failure_count = 2
        /\ breaker.last_failure_time = 1

\* C21: the lock is free whenever a caller is suspended inside func: any
\* other caller whose call the gate does not reject gets past the gate and
\* into func at once, in particular while a probe is in flight in HalfOpen;
\* and no caller is ever stuck, a call inside func can always complete and
\* a caller that is not in a call can always start one.
C21_FuncRunsOutsideLock ==
    \A c \in Callers :
        /\ pc[c] = "calling"
              => /\ ENABLED FuncReturns(c)
                 /\ ENABLED FuncRaises(c)
        /\ (Free(c) /\ calls < MaxCalls)
              => /\ ENABLED Call(c)
                 /\ ~GateRejects(breaker, now)
                       => ENABLED (Call(c) /\ pc'[c] = "calling")
        /\ \A d \in Callers \ {c} :
              (/\ pc[d] = "calling" /\ probe[d]
               /\ breaker.state = "half_open"
               /\ Free(c) /\ calls < MaxCalls)
                 => ENABLED (Call(c) /\ pc'[c] = "calling")

\* C21 witness: two calls are inside func at once, each of them admitted as
\* the probe of a recovery.
C21_Witness ==
    \E c, d \in Callers :
        /\ c # d
        /\ pc[c] = "calling" /\ probe[c]
        /\ pc[d] = "calling" /\ probe[d]

\* C22: every change of the breaker's state is Closed->Open,
\* Open->HalfOpen, HalfOpen->Closed or HalfOpen->Open, and failureCount is
\* 0 right after every transition into Closed.
C22_LegalTransitions ==
    [][breaker'.state # breaker.state =>
          /\ <<breaker.state, breaker'.state>> \in
                {<<"closed", "open">>, <<"open", "half_open">>,
                 <<"half_open", "closed">>, <<"half_open", "open">>}
          /\ breaker'.state = "closed" => breaker'.failure_count = 0]_vars

\* C22 witness: with threshold 1 the breaker opened, was closed by a
\* success in HalfOpen and has opened again on the next failure.
C22_Witness ==
    /\ failure_threshold = 1
    /\ breaker.state = "open"
    /\ breaker.failure_count = 1
    /\ failed = 2
    /\ succeeded

\* C23: a success in Closed leaves state, failureCount and lastFailureTime
\* as they were, so that, successes in between or not, the breaker is
\* Closed below T failures and Open on the T-th; in Closed every failure
\* adds one to the count, which opens the breaker exactly when it reaches T.
C23_ClosedSuccessChangesNothing ==
    [][\A c \in Callers :
         /\ (FuncReturns(c) /\ breaker.state = "closed") => breaker' = breaker
         /\ (FuncRaises(c) /\ failed' < failure_threshold)
               => breaker'.state = "closed"
         /\ (FuncRaises(c) /\ failed' = failure_threshold)
               => breaker'.state = "open"
         /\ (FuncRaises(c) /\ breaker.state = "closed")
               => /\ breaker'.failure_count = breaker.failure_count + 1
                  /\ (breaker'.state = "open")
                        <=> (breaker'.failure_count >= failure_threshold)]_vars

\* C23 witness: one caller alone failed and then succeeded, threshold 2,
\* and its failure is still counted; its next failure opens the breaker.
C23_Witness ==
    \E c \in Callers :
        /\ \A d \in Callers \ {c} : pc[d] = "idle"
        /\ failure_threshold = 2
        /\ calls = 2
        /\ failed = 1
        /\ pc[c] = "done"
        /\ outcome[c] = FuncReturned
        /\ breaker.state = "closed"
        /\ breaker.failure_count = 1

\* C24: a success closes the HalfOpen breaker only when it is the success
\* of a call that passed the gate in Open or HalfOpen; the success of a
\* call that passed the gate in Closed leaves the breaker as it is.
C24_OnlyProbeCloses ==
    [][\A c \in Callers :
         /\ (FuncReturns(c) /\ breaker.state = "half_open"
                            /\ breaker'.state = "closed")
               => entered[c] \in {"open", "half_open"}
         /\ (FuncReturns(c) /\ entered[c] = "closed") => breaker' = breaker]_vars

\* C25: a call rejected by the Open breaker leaves state, failureCount and
\* lastFailureTime unchanged; and once the timeout since lastFailureTime
\* has elapsed the next call is admitted, whatever was rejected meanwhile.
C25_RejectionChangesNothing ==
    [][\A c \in Callers :
         /\ (Call(c) /\ GateRejects(breaker, now))
               => /\ breaker' = breaker
                  /\ pc'[c] = "done"
                  /\ raised'[c] = BreakerOpen
         /\ (/\ Call(c)
             /\ breaker.state = "open"
             /\ now - breaker.last_failure_time >= recovery_timeout)
               => pc'[c] = "calling"]_vars

\* C25 witness: a call was rejected after an earlier success, and the
\* failure on record is older than the rejection.
C25_Witness ==
    \E c \in Callers :
        /\ pc[c] = "done"
        /\ raised[c] = BreakerOpen
        /\ succeeded
        /\ breaker.state = "open"
        /\ breaker.last_failure_time = 0
        /\ now = 1

\* C26: the breaker is Closed exactly when failureCount < T, and in Open
\* and HalfOpen failureCount >= T and lastFailureTime is set.
C26_ClosedIffUnderThreshold ==
    /\ (breaker.state = "closed") <=> (breaker.failure_count < failure_threshold)
    /\ breaker.state \in {"open", "half_open"}
          => /\ breaker.failure_count >= failure_threshold
             /\ breaker.last_failure_time # None

\* C26 witness: a HalfOpen breaker with more failures than the threshold,
\* a success having come back while it was Open.
C26_Witness ==
    /\ breaker.state = "half_open"
    /\ breaker.failure_count > failure_threshold
    /\ succeeded

\* The parts of C27 that concern selection: the provider a call selects is
\* healthy at that moment, and a call that reaches the selection while
\* every provider is unhealthy ends without a provider.
C27_Selection ==
    \A c \in Callers :
        /\ (pc[c] # "generating" /\ pc'[c] = "generating")
              => providers[provider'[c]].is_healthy
        /\ (/\ AtGate(c)
            /\ ~GateRejects(breaker, now)
            /\ DOMAIN providers # {}
            /\ GetHealthyProviders(providers) = {})
              => /\ pc'[c] = "done"
                 /\ provider'[c] = "none"
                 /\ raised'[c] = NoProviders

\* C27 as claimed: besides, only a provider health check makes an unhealthy
\* provider healthy again, never a step of an evaluation.
C27_OnlyHealthCheckRevives ==
    [][/\ C27_Selection
       /\ \A p \in DOMAIN providers :
             (~providers[p].is_healthy /\ providers'[p].is_healthy)
                => HealthCheck(p, TRUE)]_vars

\* C27 as amended: besides, an unhealthy provider becomes healthy again
\* only by a health check or by the success of a generate() that was
\* already in flight on it.
C27_HealthCheckOrInFlightRevives ==
    [][/\ C27_Selection
       /\ \A p \in DOMAIN providers :
             (~providers[p].is_healthy /\ providers'[p].is_healthy)
                => \/ HealthCheck(p, TRUE)
                   \/ \E c \in Callers :
                         /\ GenerateReturns(c)
                         /\ provider[c] = p
                         /\ providers'[p] = NewProvider]_vars

\* C27 witness: every provider is unhealthy, one of them through failed
\* evaluations, and a call has ended without a provider.
C27_Witness ==
    \E c \in Callers :
        /\ pc[c] = "done"
        /\ raised[c] = NoProviders
        /\ provider[c] = "none"
        /\ DOMAIN providers # {}
        /\ \A p \in DOMAIN providers : ~providers[p].is_healthy
        /\ \E p \in DOMAIN providers :
              providers[p].failure_count >= MaxFailures

\* C28: while no rejected attempt awaits its removal, the stored set holds
\* one entry for each admitted attempt that is younger than the window:
\* for every clock value inside the window, the entries recorded for it are
\* as many as the attempts admitted with it.
C28_EveryAdmissionRecorded ==
    (\A c \in Callers : pc[c] # "zrem") =>
        \A t \in 0..MaxTime :
            (t <= now /\ now - t < window_size)
                => (IF t \in Live(zset) THEN 1 ELSE 0) = admitted[t]

====
